---- MODULE Spec2Model ----
(***************************************************************************)
(* Model of analyze_gitlab_comments.py: the diff line resolver             *)
(* (extract_line_from_diff), the discussion normalizer                     *)
(* (filter_and_sort_notes, get_notes, collect_conversation_data), the      *)
(* extraction loop (extract_gitlab_conversations) and the summarization    *)
(* and output stage (print_analyze, analyze_review_discussion,             *)
(* print_to_csv).                                                          *)
(***************************************************************************)
EXTENDS Integers, Sequences, FiniteSets, TLC

VARIABLES
    \* ---- extract_line_from_diff: arguments and return value
    diff_text,          \* the diff, as the lines that split('\n') yields
    line_number,        \* the requested line number
    line_type,          \* 'new' or 'old'
    result,             \* the value returned (or the exception raised)
    rpc,                \* "idle" | "call" | "returned"
    \* ---- main / extract_gitlab_conversations / print_analyze
    reviewer_username,  \* args.reviewer_username
    reviewed_username,  \* args.reviewed_username
    listing,            \* the discussions the hosting API has still to yield
    discussion,         \* the loop variable of `for discussion in discussions`
    git_diff,           \* the local git_diff (last value get_git_diff returned)
    i,                  \* number of discussions consumed by the for loop
    conversation_data,  \* the records appended so far
    git_runs,           \* number of `git diff` subprocesses started
    pc,                 \* position of main
    error,              \* the uncaught exception that ended main, if any
    j,                  \* number of records print_analyze has finished
    attempt_number,     \* tenacity's attempt counter of the current call
    printed,            \* number of table rows printed (lines 233-235)
    csv,                \* rows written by print_to_csv
    raw_json            \* what save_dict_to_json wrote

vars == <<diff_text, line_number, line_type, result, rpc,
          reviewer_username, reviewed_username, listing, discussion, git_diff,
          i, conversation_data, git_runs, pc, error, j, attempt_number,
          printed, csv, raw_json>>

resolveVars == <<diff_text, line_number, line_type, result, rpc>>
mainVars == <<reviewer_username, reviewed_username, listing, discussion,
              git_diff, i, conversation_data, git_runs, pc, error, j,
              attempt_number, printed, csv, raw_json>>

----------------------------------------------------------------------------
(* Bounds *)
MaxLines == 4        \* lines of a diff text
MaxTarget == 12      \* largest requested line number
MaxNotes == 2        \* notes of a discussion drawn from the full note space
MaxDiscussions == 3  \* discussions of a multi-discussion listing

(* Python's None, for values that are otherwise strings or records *)
None == "None"
(* Python's None for the two integer cursors (line numbers are positive) *)
NoneInt == -1

----------------------------------------------------------------------------
(* extract_line_from_diff                                                  *)

(* A physical line of diff text: `pre` is what startswith() sees ("@@",    *)
(* "+", "-", " " or "" for a bare/empty line), `old`/`new` are the numbers *)
(* int() parses from a header, `text` is line[1:].strip().                 *)
HunkHeader(o, n) == [pre |-> "@@", old |-> o, new |-> n, text |-> ""]
ContentLine(p, t) == [pre |-> p, old |-> 0, new |-> 0, text |-> t]
EmptyLine == ContentLine("", "")

AddedTexts == {"added1"}
RemovedTexts == {"removed1"}
ContextTexts == {"context1", "context2"}

DiffLines ==
    {HunkHeader(10, 10), HunkHeader(10, 11), EmptyLine}
    \cup {ContentLine("+", t) : t \in AddedTexts}
    \cup {ContentLine("-", t) : t \in RemovedTexts}
    \cup {ContentLine(" ", t) : t \in ContextTexts}

(* str.split('\n') is a bijection between strings and non-empty sequences  *)
(* of newline-free lines; the empty string is the one-line text <<''>>.    *)
RECURSIVE SeqsOfLen(_, _)
SeqsOfLen(S, n) ==
    IF n = 0 THEN {<<>>}
    ELSE {Append(s, x) : s \in SeqsOfLen(S, n - 1), x \in S}

SeqsUpTo(S, n) == UNION {SeqsOfLen(S, k) : k \in 0..n}

DiffTexts == SeqsUpTo(DiffLines, MaxLines) \ {<<>>}
EmptyDiffText == <<EmptyLine>>
LineNumbers == 10..MaxTarget
LineTypes == {"new", "old"}

Found(t) == [kind |-> "line", text |-> t]
NotFound == [kind |-> "None", text |-> ""]
Raised(e) == [kind |-> "raise", text |-> e]
Pending == [kind |-> "pending", text |-> ""]

(* The body of the for loop at line k, with the cursors old/new.           *)
RECURSIVE ScanLines(_, _, _, _, _, _)
ScanLines(lines, k, old, new, target, side) ==
    IF k > Len(lines) THEN NotFound
    ELSE LET line == lines[k] IN
      IF line.pre = "@@"
      THEN ScanLines(lines, k + 1, line.old, line.new, target, side)
      ELSE IF side = "new"
      THEN IF line.pre = "+"
           THEN IF new = NoneInt THEN Raised("TypeError")
                ELSE IF new + 1 = target THEN Found(line.text)
                ELSE ScanLines(lines, k + 1, old, new + 1, target, side)
           ELSE IF line.pre # "-"
           THEN IF new = NoneInt THEN Raised("TypeError")
                ELSE IF new + 1 = target THEN Found(line.text)
                ELSE ScanLines(lines, k + 1, old + 1, new + 1, target, side)
           ELSE IF new # NoneInt /\ new = target THEN Found(line.text)
                ELSE ScanLines(lines, k + 1, old, new, target, side)
      ELSE IF side = "old"
      THEN IF line.pre = "-"
           THEN IF old = NoneInt THEN Raised("TypeError")
                ELSE IF old + 1 = target THEN Found(line.text)
                ELSE ScanLines(lines, k + 1, old + 1, new, target, side)
           ELSE IF line.pre # "+"
           THEN IF old = NoneInt THEN Raised("TypeError")
                ELSE IF old + 1 = target THEN Found(line.text)
                ELSE ScanLines(lines, k + 1, old + 1, new + 1, target, side)
           ELSE IF old # NoneInt /\ old = target THEN Found(line.text)
                ELSE ScanLines(lines, k + 1, old, new, target, side)
      ELSE ScanLines(lines, k + 1, old, new, target, side)

extract_line_from_diff(text, target, side) ==
    ScanLines(text, 1, NoneInt, NoneInt, target, side)

----------------------------------------------------------------------------
(* Discussion notes as the hosting API returns them                        *)

(* created_at is an ISO string 'YYYY-MM-DDTHH:MM:SS.fffZ'; its fixed-width *)
(* fields are kept as <<year, month, day>>, and string comparison is the   *)
(* lexicographic order of the fields.                                      *)
Timestamps == {<<2023, 1, 2>>, <<2023, 2, 1>>}

IsoLessEq(a, b) ==
    \/ a[1] < b[1]
    \/ a[1] = b[1] /\ a[2] < b[2]
    \/ a[1] = b[1] /\ a[2] = b[2] /\ a[3] <= b[3]

(* strptime('%Y-%m-%dT...') then strftime('%d-%m-%Y ...'): day first *)
convert_time_format(at) == <<at[3], at[2], at[1]>>

Usernames == {"alice", "bob"}

(* One end of a position's line_range *)
Endpoint(t, n, o) == [present |-> TRUE, type |-> t, new_line |-> n, old_line |-> o]
NoEndpoint == [present |-> FALSE, type |-> None, new_line |-> NoneInt, old_line |-> NoneInt]

LineRange(s, e) == [present |-> TRUE, start |-> s, end |-> e]
NoLineRange == [present |-> FALSE, start |-> NoEndpoint, end |-> NoEndpoint]

Position(r) ==
    [present |-> TRUE, base_sha |-> "base", head_sha |-> "head",
     new_path |-> "a.py", line_range |-> r]
NoPosition ==
    [present |-> FALSE, base_sha |-> None, head_sha |-> None,
     new_path |-> None, line_range |-> NoLineRange]

(* a multi-line comment: new line 11 to old line 12 *)
PosRange == Position(LineRange(Endpoint("new", 11, NoneInt), Endpoint("old", NoneInt, 12)))
(* a single-line comment: the API sends "line_range": null *)
PosNullRange == Position(NoLineRange)
(* a line_range without its 'end' key *)
PosNoEnd == Position(LineRange(Endpoint("new", 11, NoneInt), NoEndpoint))

Positions == {NoPosition, PosNullRange, PosRange}

(* Note k of a discussion, in listing order; its body is its own text k.   *)
Note(k, a, t, sys, p) ==
    [id |-> k, author |-> a, created_at |-> t, system |-> sys, body |-> k,
     position |-> p]

NoteShapes ==
    {<<a, t, sys, p>> : a \in Usernames, t \in Timestamps,
                        sys \in BOOLEAN, p \in Positions}

NotesOf(shapes) ==
    [k \in 1..Len(shapes) |->
        Note(k, shapes[k][1], shapes[k][2], shapes[k][3], shapes[k][4])]

Discussion(notes) == [present |-> TRUE, notes |-> notes]
NoDiscussion == [present |-> FALSE, notes |-> <<>>]

(* every discussion of 1..MaxNotes notes *)
Discussions ==
    {Discussion(NotesOf(sh)) : sh \in SeqsUpTo(NoteShapes, MaxNotes) \ {<<>>}}

(* discussions of the longer listings *)
Catalogue ==
    {Discussion(NotesOf(<<<<"alice", <<2023, 1, 2>>, FALSE, NoPosition>>>>)),
     Discussion(NotesOf(<<<<"alice", <<2023, 1, 2>>, FALSE, PosRange>>>>)),
     Discussion(NotesOf(<<<<"alice", <<2023, 1, 2>>, FALSE, PosNullRange>>>>)),
     Discussion(NotesOf(<<<<"alice", <<2023, 1, 2>>, FALSE, PosNoEnd>>>>)),
     Discussion(NotesOf(<<<<"bob", <<2023, 1, 2>>, FALSE, PosRange>>>>))}

Listings ==
    {<<d>> : d \in Discussions} \cup SeqsUpTo(Catalogue, MaxDiscussions)

(* main: reviewed_username defaults to config.REVIEWED_USERNAME when both  *)
(* usernames are missing, so at most one of them is None.                  *)
Arguments ==
    {<<None, "bob">>, <<"alice", None>>, <<"alice", "bob">>}

----------------------------------------------------------------------------
(* filter_and_sort_notes, get_notes, collect_conversation_data             *)

(* sorted(..., key=itemgetter('created_at')): a stable sort *)
RECURSIVE InsertByCreatedAt(_, _)
InsertByCreatedAt(sorted, note) ==
    IF sorted = <<>> THEN <<note>>
    ELSE LET last == sorted[Len(sorted)] IN
         IF IsoLessEq(last.created_at, note.created_at)
         THEN Append(sorted, note)
         ELSE Append(InsertByCreatedAt(SubSeq(sorted, 1, Len(sorted) - 1), note), last)

(* Mutant: the conversation is returned as filtered, without sorting. *)
Unsorted(conversation) == conversation

RECURSIVE SortedByCreatedAt(_)
SortedByCreatedAt(conversation) ==
    IF conversation = <<>> THEN <<>>
    ELSE InsertByCreatedAt(
             SortedByCreatedAt(SubSeq(conversation, 1, Len(conversation) - 1)),
             conversation[Len(conversation)])

Kept(reviewer, note) ==
    /\ reviewer = None \/ note.author = reviewer
    /\ ~note.system

(* Mutant: the check that every note is by the reviewed user is missing. *)
filter_and_sort_without_all(reviewer, reviewed, notes) ==
    SortedByCreatedAt(SelectSeq(notes, LAMBDA n : Kept(reviewer, n)))

filter_and_sort_notes(reviewer, reviewed, notes) ==
    IF \A k \in 1..Len(notes) : notes[k].author = reviewed
    THEN <<>>
    ELSE SortedByCreatedAt(SelectSeq(notes, LAMBDA n : Kept(reviewer, n)))

get_notes(conversation) ==
    [k \in 1..Len(conversation) |->
        [created_at |-> convert_time_format(conversation[k].created_at),
         reviewer |-> conversation[k].author,
         body |-> conversation[k].body]]

collect_conversation_data(conversation) ==
    [conversation_link |-> conversation[1].id,
     first_note_date |-> convert_time_format(conversation[1].created_at),
     note_count |-> Len(conversation),
     reviewers |-> {conversation[k].author : k \in 1..Len(conversation)}]

----------------------------------------------------------------------------
(* get_git_diff, get_line_and_type_from_position                           *)

MetaLine == [pre |-> "diff", old |-> 0, new |-> 0, text |-> "--git"]

(* What subprocess.run can produce: a failing git, a git with nothing to   *)
(* show, a git showing one hunk after its meta lines.                      *)
GitResults ==
    {[returncode |-> 128, stdout |-> <<>>],
     [returncode |-> 0, stdout |-> <<>>],
     [returncode |-> 0,
      stdout |-> <<MetaLine, HunkHeader(10, 10), ContentLine("+", "added1")>>]}

(* The value of get_git_diff: None, or the text from the first @@ line.    *)
(* `lines` are the lines joined by '\n'; no line stands for ''.            *)
DiffText(ls) == [present |-> TRUE, lines |-> ls]
DiffNone == [present |-> FALSE, lines |-> <<>>]

(* the local git_diff: not assigned before the first call *)
Assigned(v) == [assigned |-> TRUE, value |-> v]
DiffUnassigned == [assigned |-> FALSE, value |-> DiffNone]

RECURSIVE FromFirstHeader(_)
FromFirstHeader(diff_lines) ==
    IF diff_lines = <<>> THEN <<>>
    ELSE IF Head(diff_lines).pre = "@@" THEN diff_lines
    ELSE FromFirstHeader(Tail(diff_lines))

get_git_diff(proc) ==
    IF proc.returncode # 0 THEN DiffNone
    ELSE DiffText(FromFirstHeader(proc.stdout))

(* `if git_diff:` -- neither None nor the empty string *)
Truthy(diff) == diff.present /\ diff.lines # <<>>

Returns(line, type) == [raised |-> None, line |-> line, type |-> type]
Raises(e) == [raised |-> e, line |-> NoneInt, type |-> None]

(* Mutant: the line is always read from new_line, whatever the type. *)
get_new_line_and_type(first_note_position, direction) ==
    IF ~first_note_position.line_range.present
    THEN Raises("TypeError: 'NoneType' object is not subscriptable")
    ELSE LET position_side == IF direction = "start"
                              THEN first_note_position.line_range.start
                              ELSE first_note_position.line_range.end
         IN IF ~position_side.present
            THEN Raises(IF direction = "start" THEN "KeyError: 'start'"
                        ELSE "KeyError: 'end'")
            ELSE Returns(position_side.new_line, position_side.type)

get_line_and_type_from_position(first_note_position, direction) ==
    IF ~first_note_position.line_range.present
    THEN Raises("TypeError: 'NoneType' object is not subscriptable")
    ELSE LET position_side == IF direction = "start"
                              THEN first_note_position.line_range.start
                              ELSE first_note_position.line_range.end
         IN IF ~position_side.present
            THEN Raises(IF direction = "start" THEN "KeyError: 'start'"
                        ELSE "KeyError: 'end'")
            ELSE Returns(IF position_side.type = "new"
                         THEN position_side.new_line
                         ELSE position_side.old_line,
                         position_side.type)

----------------------------------------------------------------------------
(* The specification of the resolver: the arguments are drawn in the       *)
(* initial state and the call returns in one step.                         *)

MainIdle ==
    /\ reviewer_username = None
    /\ reviewed_username = None
    /\ listing = <<>>
    /\ discussion = NoDiscussion
    /\ git_diff = DiffUnassigned
    /\ i = 0
    /\ conversation_data = <<>>
    /\ git_runs = 0
    /\ pc = "idle"
    /\ error = None
    /\ j = 0
    /\ attempt_number = 0
    /\ printed = 0
    /\ csv = <<>>
    /\ raw_json = <<>>

InitResolve ==
    /\ diff_text \in DiffTexts
    /\ line_number \in LineNumbers
    /\ line_type \in LineTypes
    /\ result = Pending
    /\ rpc = "call"
    /\ MainIdle

CallResolve ==
    /\ rpc = "call"
    /\ result' = extract_line_from_diff(diff_text, line_number, line_type)
    /\ rpc' = "returned"
    /\ UNCHANGED <<diff_text, line_number, line_type>>
    /\ UNCHANGED mainVars

NextResolve == CallResolve

SpecResolve == InitResolve /\ [][NextResolve]_vars

(* The hunk of the specification's examples *)
ExampleHunk ==
    <<HunkHeader(10, 10), ContentLine(" ", "context1"),
      ContentLine("+", "added1"), ContentLine(" ", "context2")>>

Returned(text, target, side) ==
    /\ rpc = "returned"
    /\ diff_text = text
    /\ line_number = target
    /\ line_type = side

(* C1: the first content line of a hunk is matched at the header's         *)
(* counters, unincremented: a text whose first line is a header and whose  *)
(* second line is a context line resolves the header's old (new) start on  *)
(* the old (new) side to that context line; and in the example hunk old    *)
(* line 10 and new line 10 are "context1" and new line 11 is "added1".     *)
C1_FirstLineAtHeaderCounters ==
    /\ (/\ rpc = "returned"
        /\ Len(diff_text) >= 2
        /\ diff_text[1].pre = "@@"
        /\ diff_text[2].pre \in {" ", ""}
        /\ line_number = (IF line_type = "new" THEN diff_text[1].new
                          ELSE diff_text[1].old))
       => result = Found(diff_text[2].text)
    /\ Returned(ExampleHunk, 10, "old") => result = Found("context1")
    /\ Returned(ExampleHunk, 10, "new") => result = Found("context1")
    /\ Returned(ExampleHunk, 11, "new") => result = Found("added1")

(* C2: an old-side query never returns the text of an added line, a        *)
(* new-side query never returns the text of a removed line, and old line   *)
(* 11 of the example hunk is not found.                                    *)
C2_SideExclusion ==
    /\ (rpc = "returned" /\ line_type = "old" /\ result.kind = "line")
       => result.text \notin AddedTexts
    /\ (rpc = "returned" /\ line_type = "new" /\ result.kind = "line")
       => result.text \notin RemovedTexts
    /\ Returned(ExampleHunk, 11, "old") => result = NotFound

(* C6: for the empty string and for every diff text that starts at its     *)
(* first hunk header, the resolver returns a line text or None and never   *)
(* raises, on both sides and for every target line.                        *)
C6_NeverRaises ==
    (rpc = "returned" /\ (diff_text = EmptyDiffText \/ diff_text[1].pre = "@@"))
        => result.kind \in {"line", "None"}

----------------------------------------------------------------------------
(* main: extract_gitlab_conversations, then print_analyze.  The model      *)
(* follows the default online run (--gitlab_access_token, --analyze and    *)
(* --result_csv_file left at their defaults); the discussions of all       *)
(* merged merge requests with user notes form one listing.                 *)

MaxAttempts == 6     \* stop_after_attempt(6)

Unset == "<unset>"   \* a key the record does not have
Answers == {"insight"}

UnsetRange ==
    [start |-> [line |-> NoneInt, type |-> None],
     end |-> [line |-> NoneInt, type |-> None]]

(* lines 91-94: the range read from the position *)
PositionRange(first_note_position) ==
    LET s == get_line_and_type_from_position(first_note_position, "start")
        e == get_line_and_type_from_position(first_note_position, "end")
    IN [raised |-> IF s.raised # None THEN s.raised ELSE e.raised,
        range |-> [start |-> [line |-> s.line, type |-> s.type],
                   end |-> [line |-> e.line, type |-> e.type]]]

(* lines 78-84: the record before the position is looked at *)
NewRecord(conversation) ==
    LET data == collect_conversation_data(conversation) IN
    [conversation_link |-> data.conversation_link,
     first_note_date |-> data.first_note_date,
     note_count |-> data.note_count,
     reviewers |-> data.reviewers,
     notes |-> get_notes(conversation),
     diff_text |-> DiffNone,
     discussion_range |-> UnsetRange,
     analyze |-> Unset]

(* line 85: the position the loop body reads *)
FirstNotePosition(conversation) == conversation[1].position

(* lines 89-90 *)
RecordDiffText(diff) == IF Truthy(diff) THEN diff ELSE DiffNone

InitWith(listings) ==
    /\ diff_text = <<>>
    /\ line_number = 0
    /\ line_type = None
    /\ result = Pending
    /\ rpc = "idle"
    /\ \E a \in Arguments :
          /\ reviewer_username = a[1]
          /\ reviewed_username = a[2]
    /\ listing \in listings
    /\ discussion = NoDiscussion
    /\ git_diff = DiffUnassigned
    /\ i = 0
    /\ conversation_data = <<>>
    /\ git_runs = 0
    /\ pc = "extract"
    /\ error = None
    /\ j = 0
    /\ attempt_number = 0
    /\ printed = 0
    /\ csv = <<>>
    /\ raw_json = <<>>

Init == InitWith(Listings)

(* One iteration of `for discussion in discussions` (lines 73-98). *)
ExtractDiscussion ==
    /\ pc = "extract"
    /\ listing # <<>>
    /\ discussion' = Head(listing)
    /\ listing' = Tail(listing)
    /\ i' = i + 1
    /\ LET conversation == filter_and_sort_notes(reviewer_username, reviewed_username,
                                                 Head(listing).notes)
       IN IF conversation = <<>>
          THEN UNCHANGED <<conversation_data, git_diff, git_runs, pc, error>>
          ELSE IF ~FirstNotePosition(conversation).present
          THEN /\ conversation_data' = Append(conversation_data, NewRecord(conversation))
               /\ UNCHANGED <<git_diff, git_runs, pc, error>>
          ELSE \E proc \in GitResults :
               LET diff == get_git_diff(proc)
                   r == PositionRange(FirstNotePosition(conversation))
               IN /\ git_diff' = Assigned(diff)
                  /\ git_runs' = git_runs + 1
                  /\ IF r.raised # None
                     THEN /\ pc' = "aborted"
                          /\ error' = r.raised
                          /\ UNCHANGED conversation_data
                     ELSE /\ conversation_data' =
                               Append(conversation_data,
                                      [NewRecord(conversation) EXCEPT
                                          !.diff_text = RecordDiffText(diff),
                                          !.discussion_range = r.range])
                          /\ UNCHANGED <<pc, error>>
    /\ UNCHANGED <<reviewer_username, reviewed_username, j, attempt_number,
                   printed, csv, raw_json>>
    /\ UNCHANGED resolveVars

(* The listing is exhausted: extract_gitlab_conversations returns, main    *)
(* saves the raw records and calls print_analyze (lines 105, 204-209).     *)
ReturnConversations ==
    /\ pc = "extract"
    /\ listing = <<>>
    /\ raw_json' = conversation_data
    /\ discussion' = NoDiscussion
    /\ git_diff' = DiffUnassigned
    /\ pc' = "analyze"
    /\ UNCHANGED <<reviewer_username, reviewed_username, listing, i,
                   conversation_data, git_runs, error, j, attempt_number,
                   printed, csv>>
    /\ UNCHANGED resolveVars

(* completion_with_backoff: the number of the attempt about to be made *)
ThisAttempt == IF pc = "retry" THEN attempt_number + 1 ELSE 1

Calling ==
    \/ pc = "analyze" /\ j < Len(conversation_data)
    \/ pc = "retry"

(* Mutant: one attempt more than stop_after_attempt allows. *)
StopAfterOneMore(n) == n > MaxAttempts

(* stop_after_attempt(6): no further attempt once this many were made *)
StopAfterAttempt(n) == n >= MaxAttempts

(* client.chat.completions.create returns: the record gets its summary     *)
(* (lines 296-299, 228).                                                   *)
CompletionReturns ==
    /\ Calling
    /\ \E answer \in Answers :
          conversation_data' = [conversation_data EXCEPT ![j + 1].analyze = answer]
    /\ attempt_number' = ThisAttempt
    /\ j' = j + 1
    /\ pc' = "analyze"
    /\ UNCHANGED <<reviewer_username, reviewed_username, listing, discussion,
                   git_diff, i, git_runs, error, printed, csv, raw_json>>
    /\ UNCHANGED resolveVars

(* The call raises and tenacity waits for the next attempt. *)
CompletionRaisesRetry ==
    /\ Calling
    /\ ~StopAfterAttempt(ThisAttempt)
    /\ attempt_number' = ThisAttempt
    /\ pc' = "retry"
    /\ UNCHANGED <<reviewer_username, reviewed_username, listing, discussion,
                   git_diff, i, conversation_data, git_runs, error, j,
                   printed, csv, raw_json>>
    /\ UNCHANGED resolveVars

(* The call raises on the last attempt: RetryError reaches the except      *)
(* clause of print_analyze (lines 229-230), the record keeps no summary.   *)
CompletionRaisesStop ==
    /\ Calling
    /\ StopAfterAttempt(ThisAttempt)
    /\ attempt_number' = ThisAttempt
    /\ j' = j + 1
    /\ pc' = "analyze"
    /\ UNCHANGED <<reviewer_username, reviewed_username, listing, discussion,
                   git_diff, i, conversation_data, git_runs, error,
                   printed, csv, raw_json>>
    /\ UNCHANGED resolveVars

(* OpenAI(api_key=...) raises before any attempt (line 290); caught by the *)
(* same except clause.                                                     *)
ClientRaises ==
    /\ pc = "analyze"
    /\ j < Len(conversation_data)
    /\ attempt_number' = 0
    /\ j' = j + 1
    /\ UNCHANGED <<reviewer_username, reviewed_username, listing, discussion,
                   git_diff, i, conversation_data, git_runs, pc, error,
                   printed, csv, raw_json>>
    /\ UNCHANGED resolveVars

(* The first loop of print_analyze ends; the table header is printed. *)
PrintHeader ==
    /\ pc = "analyze"
    /\ j = Len(conversation_data)
    /\ pc' = "print"
    /\ UNCHANGED <<reviewer_username, reviewed_username, listing, discussion,
                   git_diff, i, conversation_data, git_runs, error, j,
                   attempt_number, printed, csv, raw_json>>
    /\ UNCHANGED resolveVars

(* One iteration of the second loop (lines 233-235): data['analyze'] *)
PrintRow ==
    /\ pc = "print"
    /\ printed < Len(conversation_data)
    /\ IF conversation_data[printed + 1].analyze = Unset
       THEN /\ pc' = "aborted"
            /\ error' = "KeyError: 'analyze'"
            /\ UNCHANGED printed
       ELSE /\ printed' = printed + 1
            /\ UNCHANGED <<pc, error>>
    /\ UNCHANGED <<reviewer_username, reviewed_username, listing, discussion,
                   git_diff, i, conversation_data, git_runs, j,
                   attempt_number, csv, raw_json>>
    /\ UNCHANGED resolveVars

CsvRow(data) ==
    <<data.conversation_link, data.first_note_date, data.note_count,
      data.analyze, data.reviewers>>

(* print_to_csv (lines 240-255), after the last row was printed *)
PrintToCsv ==
    /\ pc = "print"
    /\ printed = Len(conversation_data)
    /\ csv' = [k \in 1..Len(conversation_data) |-> CsvRow(conversation_data[k])]
    /\ pc' = "done"
    /\ UNCHANGED <<reviewer_username, reviewed_username, listing, discussion,
                   git_diff, i, conversation_data, git_runs, error, j,
                   attempt_number, printed, raw_json>>
    /\ UNCHANGED resolveVars

Next ==
    \/ ExtractDiscussion
    \/ ReturnConversations
    \/ CompletionReturns
    \/ CompletionRaisesRetry
    \/ CompletionRaisesStop
    \/ ClientRaises
    \/ PrintHeader
    \/ PrintRow
    \/ PrintToCsv

Spec == Init /\ [][Next]_vars

(* Liveness is checked on the multi-discussion listings; the program is    *)
(* sequential, so some step is always taken while one is possible.         *)
InitBatch == InitWith(SeqsUpTo(Catalogue, MaxDiscussions))

FairSpec == InitBatch /\ [][Next]_vars /\ WF_vars(Next)

----------------------------------------------------------------------------
(* Properties                                                              *)

(* The loop body has finished for `discussion` without raising. *)
JustExtracted == pc = "extract" /\ discussion.present

(* The normalized notes of the discussion the loop is at *)
Conversation ==
    filter_and_sort_notes(reviewer_username, reviewed_username, discussion.notes)

LastRecord == conversation_data[Len(conversation_data)]

(* The range a position's line_range states: per end, its type and the     *)
(* line of that type.                                                      *)
StatedEnd(e) ==
    [line |-> IF e.type = "new" THEN e.new_line ELSE e.old_line, type |-> e.type]
StatedRange(position) ==
    [start |-> StatedEnd(position.line_range.start),
     end |-> StatedEnd(position.line_range.end)]
CompleteRange(position) ==
    /\ position.line_range.present
    /\ position.line_range.start.present
    /\ position.line_range.end.present

(* C3: when the first note in listing order carries an anchor (with a      *)
(* complete line range) and reviewer_username filters that note out, the   *)
(* record of the discussion, if it is not empty, still has the range of    *)
(* that anchor.                                                            *)
C3_AnchorOfFirstListedNote ==
    (/\ JustExtracted
     /\ Conversation # <<>>
     /\ discussion.notes[1].position.present
     /\ CompleteRange(discussion.notes[1].position)
     /\ ~discussion.notes[1].system
     /\ reviewer_username # None
     /\ discussion.notes[1].author # reviewer_username)
    => /\ conversation_data # <<>>
       /\ LastRecord.discussion_range = StatedRange(discussion.notes[1].position)

(* get_git_diff returned None for the anchor of the current discussion *)
AbsentDiffCase ==
    /\ discussion.present
    /\ Conversation # <<>>
    /\ FirstNotePosition(Conversation).present
    /\ git_diff = Assigned(DiffNone)

C5_OutputStageCompletes ==
    pc = "aborted" => error # "KeyError: 'analyze'"

(* the day-month-year fields of a converted timestamp, as a date *)
Chronological(c) == c[3] * 10000 + c[2] * 100 + c[1]

(* C7: in every record the notes are in ascending order of creation time   *)
(* and notes of equal creation time keep their listing order; the notes    *)
(* of the record just emitted are exactly the kept notes of its discussion.*)
C7_NotesSortedStable ==
    /\ \A r \in 1..Len(conversation_data) :
         LET notes == conversation_data[r].notes IN
         \A k, l \in 1..Len(notes) :
            k < l =>
              /\ Chronological(notes[k].created_at) <= Chronological(notes[l].created_at)
              /\ notes[k].created_at = notes[l].created_at
                   => notes[k].body < notes[l].body
    /\ (JustExtracted /\ Conversation # <<>>)
       => /\ conversation_data # <<>>
          /\ {LastRecord.notes[k].body : k \in 1..Len(LastRecord.notes)} =
             {k \in 1..Len(discussion.notes) :
                 Kept(reviewer_username, discussion.notes[k])}
          /\ Len(LastRecord.notes) =
             Cardinality({k \in 1..Len(discussion.notes) :
                 Kept(reviewer_username, discussion.notes[k])})

(* the example [{t=2, alice}, {t=1, bob}] gives [bob, alice] *)
C7_Witness ==
    /\ JustExtracted
    /\ Len(discussion.notes) = 2
    /\ discussion.notes[1].author = "alice"
    /\ discussion.notes[1].created_at = <<2023, 2, 1>>
    /\ discussion.notes[2].author = "bob"
    /\ discussion.notes[2].created_at = <<2023, 1, 2>>
    /\ conversation_data # <<>>
    /\ Len(LastRecord.notes) = 2
    /\ LastRecord.notes[1].reviewer = "bob"
    /\ LastRecord.notes[2].reviewer = "alice"

SelfReview(d) ==
    \A k \in 1..Len(d.notes) : d.notes[k].author = reviewed_username

(* C8: a discussion whose every note is by reviewed_username normalizes to *)
(* the empty conversation, and the loop body appends no record for it and  *)
(* goes on.                                                                *)
C8_SelfReviewDropped ==
    [][(pc = "extract" /\ listing # <<>> /\ SelfReview(Head(listing)))
       => /\ filter_and_sort_notes(reviewer_username, reviewed_username,
                                   Head(listing).notes) = <<>>
          /\ conversation_data' = conversation_data
          /\ pc' = "extract"]_vars

C8_Witness ==
    /\ JustExtracted
    /\ Len(discussion.notes) >= 2
    /\ SelfReview(discussion)
    /\ reviewer_username = None
    /\ \E k \in 1..Len(discussion.notes) : ~discussion.notes[k].system
    /\ conversation_data = <<>>

(* C9: every discussion with a non-empty normalization gets its record,    *)
(* appended in listing order, and the loop never ends by an exception.     *)
C9_OneRecordPerDiscussion ==
    /\ Len(conversation_data) <= i
    /\ (discussion.present /\ Conversation # <<>>)
       => /\ pc = "extract"
          /\ conversation_data # <<>>
          /\ LastRecord.notes = get_notes(Conversation)

(* C10: at most 6 attempts are made per record and none after the 6th      *)
(* failure, git diff runs at most once per discussion, and the             *)
(* summarization loop is always left eventually.                           *)
C10_BoundedRetry ==
    /\ [](attempt_number <= 6)
    /\ [](pc = "retry" => attempt_number < 6)
    /\ [](git_runs <= i)
    /\ [][(attempt_number' # attempt_number /\ pc' = "retry")
            => attempt_number' = ThisAttempt /\ j' = j]_vars
    /\ [][(j < Len(conversation_data) /\ j' = j
             /\ conversation_data'[j + 1].analyze # Unset) => FALSE]_vars
    /\ (pc \in {"analyze", "retry"}) ~> (pc \notin {"analyze", "retry"})

(* the 6th failure has reached the except clause of print_analyze *)
C10_Witness ==
    /\ pc = "analyze"
    /\ j >= 1
    /\ attempt_number = 6
    /\ conversation_data[j].analyze = Unset

====
